---- MODULE Spec2Model ----
(***************************************************************************)
(* A model of gmocoiner: the GMOCoin REST client (src/gmocoiner/api.py)    *)
(* and its request signer GMOCoinAuth (src/gmocoiner/auth.py).             *)
(*                                                                         *)
(* Text (URLs, paths, JSON bodies, query strings, the signed message) is   *)
(* a sequence of tokens; concatenating two texts is \o.  A token is "/",   *)
(* "?", a punctuation mark of JSON, or a word holding none of these; two   *)
(* words side by side read as one longer word ("private", "v1" is          *)
(* privatev1), and no word but "public" and "private" begins with those    *)
(* letters.                                                                *)
(* A Python value is a record [kind, s, items]; a dict is the sequence of  *)
(* its [k, v] items in insertion order.                                    *)
(* Time is counted in ticks, Second ticks to the second.                   *)
(***************************************************************************)
EXTENDS Integers, Sequences, FiniteSets, TLC

\* ------------------------------------------------------------------ bounds
\* the resolution of the clock: ticks to the second
TicksPerSecond == 2
\* the clock of the one-caller specifications stops advancing here
MaxTime == 8
\* the 1 of "self.last_req_time + 1", a second, in ticks
Second == 1 * TicksPerSecond

\* ------------------------------------------------------------ Python values
None == [kind |-> "none", s |-> "", items |-> <<>>]
Str(x) == [kind |-> "str", s |-> x, items |-> <<>>]
Num(x) == [kind |-> "num", s |-> x, items |-> <<>>]
List(ds) == [kind |-> "list", s |-> "", items |-> ds]
Item(key, val) == [k |-> key, v |-> val]
IsNone(v) == v.kind = "none"

\* either the value or None: an argument the caller may leave out or pass as None
Opt(v) == {None, v}

\* ------------------------------------------------------- endpoint methods
Req(m, p, pl, a) == [method |-> m, path |-> p, payload |-> pl, auth |-> a]

status ==
    Req("GET", <<"/", "v1", "/", "status">>, <<>>, FALSE)

ticker(symbol) ==
    Req("GET", <<"/", "v1", "/", "ticker">>, <<Item("symbol", symbol)>>, FALSE)

orderbooks(symbol) ==
    Req("GET", <<"/", "v1", "/", "orderbooks">>, <<Item("symbol", symbol)>>, FALSE)

trades(symbol, page, count) ==
    Req("GET", <<"/", "v1", "/", "trades">>,
        <<Item("symbol", symbol), Item("page", page), Item("count", count)>>, FALSE)

account_margin ==
    Req("GET", <<"/", "v1", "/", "account", "/", "margin">>, <<>>, TRUE)

account_assets ==
    Req("GET", <<"/", "v1", "/", "account", "/", "assets">>, <<>>, TRUE)

orders(orderId) ==
    Req("GET", <<"/", "v1", "/", "orders">>, <<Item("orderId", orderId)>>, TRUE)

activeorders(symbol, page, count) ==
    Req("GET", <<"/", "v1", "/", "activeOrders">>,
        <<Item("symbol", symbol), Item("page", page), Item("count", count)>>, TRUE)

executions(orderId, executionId) ==
    Req("GET", <<"/", "v1", "/", "executions">>,
        <<Item("orderId", orderId), Item("executionId", executionId)>>, TRUE)

latestexecutions(symbol, page, count) ==
    Req("GET", <<"/", "v1", "/", "latestExecutions">>,
        <<Item("symbol", symbol), Item("page", page), Item("count", count)>>, TRUE)

openpositions(symbol, page, count) ==
    Req("GET", <<"/", "v1", "/", "openPositions">>,
        <<Item("symbol", symbol), Item("page", page), Item("count", count)>>, TRUE)

positionsummary(symbol) ==
    Req("GET", <<"/", "v1", "/", "positionSummary">>, <<Item("symbol", symbol)>>, TRUE)

order(symbol, side, executionType, size, price) ==
    Req("POST", <<"/", "v1", "/", "order">>,
        <<Item("symbol", symbol), Item("side", side),
          Item("executionType", executionType), Item("price", price),
          Item("size", size)>>, TRUE)

changeorder(orderId, price) ==
    Req("POST", <<"/", "v1", "/", "changeOrder">>,
        <<Item("orderId", orderId), Item("price", price)>>, TRUE)

cancelorder(orderId) ==
    Req("POST", <<"/", "v1", "/", "cancelOrder">>, <<Item("orderId", orderId)>>, TRUE)

closeorder(symbol, side, executionType, settlePosition_positionId, settlePosition_size, price) ==
    Req("POST", <<"/", "v1", "/", "closeOrder">>,
        <<Item("symbol", symbol), Item("side", side),
          Item("executionType", executionType), Item("price", price),
          Item("settlePosition",
               List(<< <<Item("positionId", settlePosition_positionId),
                         Item("size", settlePosition_size)>> >>))>>, TRUE)

closebulkorder(symbol, side, executionType, size, price) ==
    Req("POST", <<"/", "v1", "/", "closeBulkOrder">>,
        <<Item("symbol", symbol), Item("side", side),
          Item("executionType", executionType), Item("price", price),
          Item("size", size)>>, TRUE)

changelosscutprice(positionId, losscutPrice) ==
    Req("POST", <<"/", "v1", "/", "changeLosscutPrice">>,
        <<Item("positionId", positionId), Item("losscutPrice", losscutPrice)>>, TRUE)

\* the argument values a caller passes: one value per parameter, or None
SymbolArg == Opt(Str("BTC_JPY"))
PageArg == Opt(Num("1"))
CountArg == Opt(Num("10"))
IdArg == Opt(Num("123"))
SideArg == Opt(Str("BUY"))
TypeArg == Opt(Str("LIMIT"))
SizeArg == Opt(Str("0.1"))
PriceArg == Opt(Num("5000"))

PublicCalls ==
    {status}
    \cup {ticker(s) : s \in SymbolArg}
    \cup {orderbooks(s) : s \in SymbolArg}
    \cup {trades(s, p, c) : s \in SymbolArg, p \in PageArg, c \in CountArg}

PrivateGetCalls ==
    {account_margin, account_assets}
    \cup {orders(i) : i \in IdArg}
    \cup {activeorders(s, p, c) : s \in SymbolArg, p \in PageArg, c \in CountArg}
    \cup {executions(i, e) : i \in IdArg, e \in IdArg}
    \cup {latestexecutions(s, p, c) : s \in SymbolArg, p \in PageArg, c \in CountArg}
    \cup {openpositions(s, p, c) : s \in SymbolArg, p \in PageArg, c \in CountArg}
    \cup {positionsummary(s) : s \in SymbolArg}

PrivatePostCalls ==
    {order(s, d, e, z, p) :
        s \in SymbolArg, d \in SideArg, e \in TypeArg, z \in SizeArg, p \in PriceArg}
    \cup {changeorder(i, p) : i \in IdArg, p \in PriceArg}
    \cup {cancelorder(i) : i \in IdArg}
    \cup {closeorder(s, d, e, i, z, p) :
            s \in SymbolArg, d \in SideArg, e \in TypeArg, i \in IdArg,
            z \in SizeArg, p \in PriceArg}
    \cup {closebulkorder(s, d, e, z, p) :
            s \in SymbolArg, d \in SideArg, e \in TypeArg, z \in SizeArg, p \in PriceArg}
    \cup {changelosscutprice(i, p) : i \in IdArg, p \in PriceArg}

Calls == PublicCalls \cup PrivateGetCalls \cup PrivatePostCalls

\* ------------------------------------------------- _request: the payload
\* for k, v in list(payload.items()): if v is None: del payload[k]
StripNone(payload) == SelectSeq(payload, LAMBDA it : ~IsNone(it.v))

\* json.dumps with its default separators ", " and ": "
RECURSIVE JsonValue(_), JsonItems(_), JsonDicts(_)
JsonDict(d) == <<"{">> \o JsonItems(d) \o <<"}">>
JsonItems(d) ==
    IF d = <<>> THEN <<>>
    ELSE <<"\"", Head(d).k, "\"", ": ">> \o JsonValue(Head(d).v)
         \o (IF Tail(d) = <<>> THEN <<>> ELSE <<", ">> \o JsonItems(Tail(d)))
JsonDicts(ds) ==
    IF ds = <<>> THEN <<>>
    ELSE JsonDict(Head(ds))
         \o (IF Tail(ds) = <<>> THEN <<>> ELSE <<", ">> \o JsonDicts(Tail(ds)))
JsonValue(v) ==
    CASE v.kind = "none" -> <<"null">>
      [] v.kind = "str" -> <<"\"", v.s, "\"">>
      [] v.kind = "num" -> <<v.s>>
      [] v.kind = "list" -> <<"[">> \o JsonDicts(v.items) \o <<"]">>
json_dumps(payload) == JsonDict(payload)

\* requests' encoding of params: k=v joined with &, a None value left out
RECURSIVE UrlEncode(_)
UrlEncode(query) ==
    IF query = <<>> THEN <<>>
    ELSE LET rest == UrlEncode(Tail(query))
             this == IF IsNone(Head(query).v) THEN <<>>
                     ELSE <<Head(query).k, "=", Head(query).v.s>>
         IN  IF this = <<>> THEN rest
             ELSE IF rest = <<>> THEN this
             ELSE this \o <<"&">> \o rest

\* a request body, or none (Python's None)
NoBody == [present |-> FALSE, text |-> <<>>]
Body(text) == [present |-> TRUE, text |-> text]
\* params=None
NoQuery == [present |-> FALSE, dict |-> <<>>]
Query(d) == [present |-> TRUE, dict |-> d]

\* the payload serialized into the body whatever the method
BodyOf_Always(method, payload) == Body(json_dumps(payload))

\* if method == 'GET': body = None ... else: body = json.dumps(payload)
BodyOf(method, payload) ==
    IF method = "GET" THEN NoBody ELSE Body(json_dumps(payload))

\* if method == 'GET': query = payload ... else: query = None
QueryOf(method, payload) ==
    IF method = "GET" THEN Query(payload) ELSE NoQuery

\* the class attribute endpoint
endpoint ==
    [public |-> <<"https://api.coin.z.com", "/", "public">>,
     private |-> <<"https://api.coin.z.com", "/", "private">>]

\* if not auth: endpoint = self.endpoint['public'] else: self.endpoint['private']
EndpointOf(auth) == IF ~auth THEN endpoint.public ELSE endpoint.private

\* the session's auth set for a private call and never cleared
SessionAuth_NeverCleared(auth, old) == IF auth THEN "gmo_auth" ELSE old

\* if not auth: self.s.auth = None else: self.s.auth = self.gmo_auth
SessionAuth(auth, old) == IF ~auth THEN "None" ELSE "gmo_auth"

\* --------------------------------------------------------------- the signer
\* the credentials the client is constructed with
api_key == "YOUR_API_KEY"
secret == "YOUR_SECRET_KEY"

\* headers: a dict of name -> text; d[k] = v
RECURSIVE DictSet(_, _, _)
DictSet(d, key, val) ==
    IF d = <<>> THEN <<Item(key, val)>>
    ELSE IF Head(d).k = key THEN <<Item(key, val)>> \o Tail(d)
    ELSE <<Head(d)>> \o DictSet(Tail(d), key, val)
HasKey(d, key) == \E i \in 1..Len(d) : d[i].k = key
Get(d, key) == d[CHOOSE i \in 1..Len(d) : d[i].k = key].v

\* the first index of token x in text, or Len(text) + 1
IndexOf(text, x) ==
    IF \E i \in 1..Len(text) : text[i] = x
    THEN CHOOSE i \in 1..Len(text) : text[i] = x /\ \A j \in 1..(i-1) : text[j] # x
    ELSE Len(text) + 1

\* r.path_url: the URL after its scheme and host, query string included
path_url(r) == Tail(r.url)

\* urllib.parse.urlparse(x).path: what precedes the query string
UrlPath(x) == SubSeq(x, 1, IndexOf(x, "?") - 1)

\* re.sub(r'\A/(public|private)', '', o): the characters "/public" or "/private"
\* at the very start are dropped, whatever follows them
StripFamily(o) ==
    IF Len(o) >= 2 /\ o[1] = "/" /\ o[2] \in {"public", "private"}
    THEN SubSeq(o, 3, Len(o))
    ELSE o

\* str(int(time.time() * 1000)): milliseconds, in decimal
Timestamp(t) == ToString((t * 1000) \div Second)

\* r.body or ''
BodyOrEmpty(r) == IF r.body.present THEN r.body.text ELSE <<>>

\* text = timestamp + r.method + p + (r.body or '')
SignText(timestamp, r) ==
    <<timestamp, r.method>> \o StripFamily(UrlPath(path_url(r))) \o BodyOrEmpty(r)

\* hmac.new(secret, text, sha256).hexdigest(): a digest stands for its key and message
HmacSha256(key, text) == <<"hmac-sha256", key>> \o text

\* GMOCoinAuth.__call__(r) at time t
GMOCoinAuth(r, t) ==
    LET timestamp == Timestamp(t)
        sign == HmacSha256(secret, SignText(timestamp, r))
        h1 == DictSet(r.headers, "API-KEY", <<api_key>>)
        h2 == DictSet(h1, "API-TIMESTAMP", <<timestamp>>)
        h3 == DictSet(h2, "API-SIGN", sign)
    IN  [r EXCEPT !.headers = h3]

\* self.s.headers['Content-Type'] = 'application/json'
SessionHeaders == <<Item("Content-Type", <<"application/json">>)>>

\* Request(method, endpoint + path, data=body, params=query) and
\* Session.prepare_request: the URL with its query string, the body, the session's
\* headers, and the session's auth hook applied last
PrepareRequest(method, url, body, query, sauth, t) ==
    LET qs == IF query.present THEN UrlEncode(query.dict) ELSE <<>>
        r == [method |-> method,
              url |-> IF qs = <<>> THEN url ELSE url \o <<"?">> \o qs,
              body |-> body,
              headers |-> SessionHeaders]
    IN  IF sauth = "gmo_auth" THEN GMOCoinAuth(r, t) ELSE r

\* ------------------------------------------------------ the client's state
Threads == {1, 2}

VARIABLES
    late_limit,     \* self.late_limit
    last_req_time,  \* self.last_req_time, in ticks
    s_auth,         \* self.s.auth: "None" or "gmo_auth"
    clock,          \* time.time(), in ticks
    pc,             \* per thread: where it is in _request
    call,           \* per thread: the endpoint call as the caller made it
    local,          \* per thread: body, query and endpoint of _request
    prepped,        \* per thread: the prepared request
    now,            \* per thread: the local now of the throttle
    wake,           \* per thread: the time before which time.sleep does not return
    resp,           \* per thread: the local resp
    ret,            \* per thread: what _request returned
    steps,          \* per thread: the steps of the dispatch so far, in order
    errlog,         \* per thread: the lines logger.error wrote in the dispatch
    sendStart,      \* per thread: when s.send was entered
    sendEnd,        \* per thread: when s.send came back
    seenLast,       \* per thread: the last_req_time the throttle went by
    stamp,          \* per thread: the time.time() read for the new last_req_time
    last_dispatch   \* the dispatch that ended last: its auth, whether its send
                    \* gave a response, and when that send came back

vars == <<late_limit, last_req_time, s_auth, clock, pc, call, local, prepped, now,
          wake, resp, ret, steps, errlog, sendStart, sendEnd, seenLast, stamp,
          last_dispatch>>

\* the responses the exchange gives
Responses ==
    {[status |-> 200, text |-> "ok"],
     [status |-> 400, text |-> "bad request"],
     [status |-> 503, text |-> "maintenance"]}
NoResp == [status |-> 0, text |-> ""]

NoCall == Req("", <<>>, <<>>, FALSE)
NoLocal == [body |-> NoBody, query |-> NoQuery, endpoint |-> <<>>]
NoPrepped == [method |-> "", url |-> <<>>, body |-> NoBody, headers |-> <<>>]
NoDispatch == [auth |-> FALSE, completed |-> FALSE, doneAt |-> 0, ended |-> FALSE]

\* GMOCoin.__init__; the wall clock is far past the epoch
Init ==
    /\ late_limit \in BOOLEAN
    /\ last_req_time = 0
    /\ s_auth = "None"
    /\ clock = Second
    /\ pc = [t \in Threads |-> "idle"]
    /\ call = [t \in Threads |-> NoCall]
    /\ local = [t \in Threads |-> NoLocal]
    /\ prepped = [t \in Threads |-> NoPrepped]
    /\ now = [t \in Threads |-> 0]
    /\ wake = [t \in Threads |-> 0]
    /\ resp = [t \in Threads |-> NoResp]
    /\ ret = [t \in Threads |-> NoResp]
    /\ steps = [t \in Threads |-> <<>>]
    /\ errlog = [t \in Threads |-> <<>>]
    /\ sendStart = [t \in Threads |-> 0]
    /\ sendEnd = [t \in Threads |-> 0]
    /\ seenLast = [t \in Threads |-> 0]
    /\ stamp = [t \in Threads |-> 0]
    /\ last_dispatch = NoDispatch

\* the throttle without its second: last_req_time > now
NeedsWait_NoSecond(last, n) == last > n

\* if self.last_req_time + 1 > now
NeedsWait(last, n) == last + Second > n

\* wait_time = self.last_req_time + 1 - now
WaitTime(last, n) == last + Second - n

\* resp.raise_for_status(): HTTPError for a 4xx or 5xx status
RaisesHTTPError(r) == r.status >= 400 /\ r.status < 600

\* an HTTP error status left to propagate
AfterHTTPError_Raise == "raised"

\* except HTTPError as e: self.logger.error(e), and _request goes on
AfterHTTPError == "update"

\* a failed send tried again
AfterSendFailure_Retry == "send"

\* except HTTPError: nothing else is caught, so any other failure of s.send leaves
\* _request at once
AfterSendFailure == "raised"

\* the timestamp updated whether or not rate limiting is on
UpdatesRateState_Always(limit) == TRUE

\* if self.late_limit: (the guard of the timestamp update)
UpdatesRateState(limit) == limit

\* the throttle's now, read before the send, reused as the new last_req_time
StampedTime_BeforeSend(t) == now[t]

\* self.last_req_time = time.time(): the clock as read after the send
StampedTime(t) == clock

\* what every step of thread t leaves alone
client == <<late_limit, last_req_time, s_auth, clock, last_dispatch>>
frame == <<call, local, prepped>>
timing == <<now, wake, seenLast, stamp, sendStart, sendEnd>>
result == <<resp, ret, errlog>>

\* An endpoint method is called and _request runs up to the choice of the endpoint:
\* the payload is stripped, body and query are set, the session's auth is set.
Call(t, c) ==
    /\ pc[t] \in {"idle", "returned", "raised"}
    /\ LET payload == StripNone(c.payload)
       IN  local' = [local EXCEPT ![t] =
                        [body |-> BodyOf(c.method, payload),
                         query |-> QueryOf(c.method, payload),
                         endpoint |-> EndpointOf(c.auth)]]
    /\ s_auth' = SessionAuth(c.auth, s_auth)
    /\ call' = [call EXCEPT ![t] = c]
    /\ pc' = [pc EXCEPT ![t] = "prepare"]
    /\ steps' = [steps EXCEPT ![t] = <<"build">>]
    /\ prepped' = [prepped EXCEPT ![t] = NoPrepped]
    /\ now' = [now EXCEPT ![t] = 0]
    /\ wake' = [wake EXCEPT ![t] = 0]
    /\ resp' = [resp EXCEPT ![t] = NoResp]
    /\ ret' = [ret EXCEPT ![t] = NoResp]
    /\ errlog' = [errlog EXCEPT ![t] = <<>>]
    /\ sendStart' = [sendStart EXCEPT ![t] = 0]
    /\ sendEnd' = [sendEnd EXCEPT ![t] = 0]
    /\ seenLast' = [seenLast EXCEPT ![t] = 0]
    /\ stamp' = [stamp EXCEPT ![t] = 0]
    /\ UNCHANGED <<late_limit, last_req_time, clock, last_dispatch>>

\* req = Request(...); prepped = self.s.prepare_request(req)
Prepare(t) ==
    /\ pc[t] = "prepare"
    /\ prepped' = [prepped EXCEPT ![t] =
                      PrepareRequest(call[t].method, local[t].endpoint \o call[t].path,
                                     local[t].body, local[t].query, s_auth, clock)]
    /\ steps' = [steps EXCEPT ![t] =
                    @ \o (IF s_auth = "gmo_auth" THEN <<"sign">> ELSE <<>>)
                      \o <<"prepare">>]
    /\ pc' = [pc EXCEPT ![t] = "throttle"]
    /\ UNCHANGED <<client, call, local, timing, result>>

\* if self.late_limit: now = time.time()
ReadNow(t) ==
    /\ pc[t] = "throttle"
    /\ IF late_limit
       THEN /\ now' = [now EXCEPT ![t] = clock]
            /\ pc' = [pc EXCEPT ![t] = "check"]
       ELSE /\ pc' = [pc EXCEPT ![t] = "send"]
            /\ UNCHANGED now
    /\ UNCHANGED <<client, frame, wake, seenLast, stamp, sendStart, sendEnd, result,
                   steps>>

\* if self.last_req_time + 1 > now:
Check(t) ==
    /\ pc[t] = "check"
    /\ seenLast' = [seenLast EXCEPT ![t] = last_req_time]
    /\ pc' = [pc EXCEPT ![t] =
                 IF NeedsWait(last_req_time, now[t]) THEN "wait" ELSE "send"]
    /\ UNCHANGED <<client, frame, now, wake, stamp, sendStart, sendEnd, result, steps>>

\* wait_time = self.last_req_time + 1 - now; time.sleep(wait_time) is entered.
\* time.sleep raises ValueError for a negative length.
Sleep(t) ==
    /\ pc[t] = "wait"
    /\ seenLast' = [seenLast EXCEPT ![t] = last_req_time]
    /\ LET wait_time == WaitTime(last_req_time, now[t])
       IN  IF wait_time < 0
           THEN /\ pc' = [pc EXCEPT ![t] = "raised"]
                /\ last_dispatch' = [auth |-> call[t].auth, completed |-> FALSE,
                                     doneAt |-> 0, ended |-> TRUE]
                /\ UNCHANGED <<wake, steps>>
           ELSE /\ wake' = [wake EXCEPT ![t] = clock + wait_time]
                /\ steps' = [steps EXCEPT ![t] = @ \o <<"wait">>]
                /\ pc' = [pc EXCEPT ![t] = "sleep"]
                /\ UNCHANGED last_dispatch
    /\ UNCHANGED <<late_limit, last_req_time, s_auth, clock, frame, now, stamp,
                   sendStart, sendEnd, result>>

\* time.sleep(wait_time) returns, no sooner than asked
Wake(t) ==
    /\ pc[t] = "sleep"
    /\ clock >= wake[t]
    /\ pc' = [pc EXCEPT ![t] = "send"]
    /\ UNCHANGED <<client, frame, timing, result, steps>>

\* self.s.send(prepped) is entered
SendStart(t) ==
    /\ pc[t] = "send"
    /\ sendStart' = [sendStart EXCEPT ![t] = clock]
    /\ steps' = [steps EXCEPT ![t] = @ \o <<"send">>]
    /\ pc' = [pc EXCEPT ![t] = "sending"]
    /\ UNCHANGED <<client, frame, now, wake, seenLast, stamp, sendEnd, result>>

\* resp = self.s.send(prepped) comes back with a response; resp.raise_for_status()
\* and its except HTTPError: self.logger.error(e)
Receive(t, r) ==
    /\ pc[t] = "sending"
    /\ resp' = [resp EXCEPT ![t] = r]
    /\ sendEnd' = [sendEnd EXCEPT ![t] = clock]
    /\ errlog' = [errlog EXCEPT ![t] =
                     IF RaisesHTTPError(r) THEN @ \o <<r.status>> ELSE @]
    /\ pc' = [pc EXCEPT ![t] = IF RaisesHTTPError(r) THEN AfterHTTPError ELSE "update"]
    /\ last_dispatch' = IF RaisesHTTPError(r) /\ AfterHTTPError = "raised"
                        THEN [auth |-> call[t].auth, completed |-> TRUE,
                              doneAt |-> clock, ended |-> TRUE]
                        ELSE last_dispatch
    /\ UNCHANGED <<late_limit, last_req_time, s_auth, clock, frame, now, wake,
                   seenLast, stamp, sendStart, ret, steps>>

\* self.s.send(prepped) fails below HTTP (DNS, TLS, connection refused)
TransportFail(t) ==
    /\ pc[t] = "sending"
    /\ pc' = [pc EXCEPT ![t] = AfterSendFailure]
    /\ last_dispatch' = IF AfterSendFailure = "raised"
                        THEN [auth |-> call[t].auth, completed |-> FALSE,
                              doneAt |-> 0, ended |-> TRUE]
                        ELSE last_dispatch
    /\ UNCHANGED <<late_limit, last_req_time, s_auth, clock, frame, timing, result,
                   steps>>

\* if self.late_limit: ... time.time() is read
Stamp(t) ==
    /\ pc[t] = "update"
    /\ IF UpdatesRateState(late_limit)
       THEN /\ stamp' = [stamp EXCEPT ![t] = StampedTime(t)]
            /\ pc' = [pc EXCEPT ![t] = "store"]
       ELSE /\ pc' = [pc EXCEPT ![t] = "return"]
            /\ UNCHANGED stamp
    /\ UNCHANGED <<client, frame, now, wake, seenLast, sendStart, sendEnd, result,
                   steps>>

\* self.last_req_time = (the time read)
Store(t) ==
    /\ pc[t] = "store"
    /\ last_req_time' = stamp[t]
    /\ steps' = [steps EXCEPT ![t] = @ \o <<"update">>]
    /\ pc' = [pc EXCEPT ![t] = "return"]
    /\ UNCHANGED <<late_limit, s_auth, clock, last_dispatch, frame, timing, result>>

\* self.logger.debug(...); return resp
Return(t) ==
    /\ pc[t] = "return"
    /\ ret' = [ret EXCEPT ![t] = resp[t]]
    /\ steps' = [steps EXCEPT ![t] = @ \o <<"return">>]
    /\ pc' = [pc EXCEPT ![t] = "returned"]
    /\ last_dispatch' = [auth |-> call[t].auth, completed |-> TRUE,
                         doneAt |-> sendEnd[t], ended |-> TRUE]
    /\ UNCHANGED <<late_limit, last_req_time, s_auth, clock, frame, timing, resp,
                   errlog>>

\* time passes, up to max
TickTo(max) ==
    /\ clock < max
    /\ clock' = clock + 1
    /\ UNCHANGED <<late_limit, last_req_time, s_auth, last_dispatch, pc, frame,
                   timing, result, steps>>

\* the steps of _request after the call
Run(t, responses) ==
    \/ Prepare(t)
    \/ ReadNow(t)
    \/ Check(t)
    \/ Sleep(t)
    \/ Wake(t)
    \/ SendStart(t)
    \/ \E r \in responses : Receive(t, r)
    \/ TransportFail(t)
    \/ Stamp(t)
    \/ Store(t)
    \/ Return(t)

\* the calls the timed specifications draw from: a public and a private GET, with
\* and without parameters, and a private POST
TimedCalls ==
    {status,
     trades(Str("BTC_JPY"), None, Num("10")),
     account_assets,
     order(Str("BTC_JPY"), Str("BUY"), Str("LIMIT"), Str("0.1"), None)}

\* one caller: the calls of a client come one after the other
Next ==
    \/ \E c \in TimedCalls : Call(1, c)
    \/ Run(1, Responses)
    \/ TickTo(MaxTime)
Spec == Init /\ [][Next]_vars

\* A client with rate limiting off, in one instant: every endpoint method, with every
\* combination of None and non-None arguments.
InitSurface == Init /\ ~late_limit
NextSurface ==
    \/ \E c \in Calls : Call(1, c)
    \/ Prepare(1)
    \/ ReadNow(1)
    \/ SendStart(1)
    \/ \E r \in Responses : Receive(1, r)
    \/ TransportFail(1)
    \/ Stamp(1)
    \/ Return(1)
SpecSurface == InitSurface /\ [][NextSurface]_vars

\* The signer on its own: a session with the signer as its auth prepares any request,
\* whatever its method, path, query and body.  Paths have up to MaxPathLen tokens.
MaxPathLen == 4
PathTokens == {"/", "public", "private", "v1"}
SignPaths ==
    {p \in UNION {[1..n -> PathTokens] : n \in 1..MaxPathLen} : p[1] = "/"}
SignBodies == {NoBody, Body(<<>>), Body(<<"{", "}">>)}
SignQueries == {NoQuery, Query(<<Item("symbol", Str("BTC_JPY"))>>)}

SignRequest(t, m, p, b, q) ==
    /\ pc[t] = "idle"
    /\ call' = [call EXCEPT ![t] = Req(m, p, <<>>, TRUE)]
    /\ local' = [local EXCEPT ![t] =
                    [body |-> b, query |-> q, endpoint |-> <<"https://api.coin.z.com">>]]
    /\ prepped' = [prepped EXCEPT ![t] =
                      PrepareRequest(m, <<"https://api.coin.z.com">> \o p, b, q,
                                     "gmo_auth", clock)]
    /\ pc' = [pc EXCEPT ![t] = "signed"]
    /\ UNCHANGED <<client, timing, result, steps>>

\* the signed request is handed on
SignDone(t) ==
    /\ pc[t] = "signed"
    /\ pc' = [pc EXCEPT ![t] = "idle"]
    /\ call' = [call EXCEPT ![t] = NoCall]
    /\ local' = [local EXCEPT ![t] = NoLocal]
    /\ prepped' = [prepped EXCEPT ![t] = NoPrepped]
    /\ UNCHANGED <<client, timing, result, steps>>

NextSign ==
    \/ \E m \in {"GET", "POST"}, p \in SignPaths, b \in SignBodies, q \in SignQueries :
          SignRequest(1, m, p, b, q)
    \/ SignDone(1)
    \/ TickTo(MaxTime)
SpecSign == Init /\ [][NextSign]_vars

\* Two callers on one client; the clock stops advancing at ConcMaxTime.
ConcMaxTime == 5
ConcCalls == {status}
ConcResponses == {[status |-> 200, text |-> "ok"]}
NextConc ==
    \/ \E t \in Threads :
          \/ \E c \in ConcCalls : Call(t, c)
          \/ Run(t, ConcResponses)
    \/ TickTo(ConcMaxTime)
SpecConc == Init /\ [][NextConc]_vars

\* ------------------------------------------------------------------ claims
Has(seq, x) == \E i \in 1..Len(seq) : seq[i] = x
Count(seq, x) == Cardinality({i \in 1..Len(seq) : seq[i] = x})

\* C1: with rate limiting on and one caller, a send never starts before
\* last_req_time + 1 second, and when two consecutive dispatches both get a response
\* the later send comes back at least 1 second after the earlier one came back.
C1_SequentialSpacing ==
    late_limit =>
        /\ (Has(steps[1], "send") /\ pc[1] \in {"sending", "update", "store", "raised"})
              => sendStart[1] >= last_req_time + Second
        /\ (pc[1] \in {"update", "store", "return"} /\ last_dispatch.completed)
              => sendEnd[1] >= last_dispatch.doneAt + Second

\* two consecutive dispatches both got a response, the second after a throttle wait,
\* exactly one second apart
C1_Witness ==
    /\ late_limit
    /\ pc[1] = "return"
    /\ last_dispatch.completed
    /\ Has(steps[1], "wait")
    /\ sendEnd[1] = last_dispatch.doneAt + Second

\* C2: a response with an HTTP error status is not raised: the error is logged and
\* the same response is returned, status and body as received, as for a 2xx
\* response; only the error log line differs.
C2_ErrorPassthrough ==
    /\ resp[1] # NoResp => pc[1] # "raised"
    /\ pc[1] = "returned" =>
          /\ resp[1] \in Responses
          /\ ret[1] = resp[1]
          /\ errlog[1] = (IF resp[1].status >= 400 THEN <<resp[1].status>> ELSE <<>>)
          /\ steps[1][Len(steps[1])] = "return"

\* a 400 response was returned to the caller, and logged
C2_Witness ==
    /\ pc[1] = "returned"
    /\ ret[1] = [status |-> 400, text |-> "bad request"]
    /\ errlog[1] = <<400>>

\* C4: a dispatch sends at most once whatever the outcome, and a transport failure
\* leaves _request with no response returned.
C4_AtMostOneAttempt ==
    /\ Count(steps[1], "send") <= 1
    /\ pc[1] = "raised" =>
          /\ resp[1] = NoResp
          /\ ret[1] = NoResp
          /\ ~Has(steps[1], "return")
          /\ ~Has(steps[1], "update")

\* a send failed at transport level and the failure left _request
C4_Witness ==
    /\ pc[1] = "raised"
    /\ Count(steps[1], "send") = 1
    /\ last_dispatch.ended /\ ~last_dispatch.completed

\* the order of the steps of a dispatch
StepOrder == <<"build", "sign", "prepare", "wait", "send", "update", "return">>
Rank(x) == CHOOSE i \in 1..Len(StepOrder) : StepOrder[i] = x
InOrder(seq) == \A i, j \in 1..Len(seq) : i < j => Rank(seq[i]) < Rank(seq[j])

\* the time the signer read, when the prepared request is signed
SignedBefore(r, limit) ==
    \E x \in 0..limit : Get(r.headers, "API-TIMESTAMP") = <<Timestamp(x)>>

\* C9: the steps of a dispatch come in the order build, sign, wait, send, timestamp
\* update, return; the signature's timestamp is read before the throttle's wait, and
\* the Rate State timestamp is a time read after the send came back.
C9_StepOrder ==
    /\ InOrder(steps[1])
    /\ (late_limit /\ call[1].auth
          /\ pc[1] \in {"check", "wait", "sleep", "send", "sending", "update", "store",
                        "return", "returned"})
          => SignedBefore(prepped[1], now[1])
    /\ (late_limit /\ Has(steps[1], "send")) => now[1] <= sendStart[1]
    /\ pc[1] \in {"update", "store", "return", "returned"} => sendStart[1] <= sendEnd[1]
    /\ pc[1] = "store" => stamp[1] >= sendEnd[1]
    /\ (late_limit /\ pc[1] \in {"return", "returned"})
          => /\ Has(steps[1], "update")
             /\ last_req_time >= sendEnd[1]

\* a private call that waited in the throttle: signed before the wait, sent after
\* it, and the Rate State timestamp read after the send had come back
C9_Witness ==
    /\ late_limit
    /\ pc[1] = "returned"
    /\ call[1].auth
    /\ steps[1] = StepOrder
    /\ SignedBefore(prepped[1], sendStart[1] - Second)
    /\ sendStart[1] < sendEnd[1]
    /\ last_req_time > sendEnd[1]

\* C10: last_req_time changes only in the post-send update of a dispatch whose send
\* gave a response, and only with rate limiting on; with late_limit false it stays 0
\* and no call waits in the throttle.
C10_RateStateFrame ==
    [][/\ last_req_time' # last_req_time
            => /\ late_limit
               /\ pc[1] = "store" /\ pc'[1] = "return"
               /\ resp[1] \in Responses
               /\ last_req_time' >= sendEnd[1]
       /\ ~late_limit'
            => /\ last_req_time' = 0
               /\ pc'[1] \notin {"check", "wait", "sleep", "store"}
               /\ ~Has(steps'[1], "wait")]_vars

\* a client without rate limiting has finished a second call, some time after its
\* construction, and last_req_time is still 0
C10_Witness ==
    /\ ~late_limit
    /\ pc[1] = "returned"
    /\ last_dispatch.completed
    /\ clock > Second
    /\ last_req_time = 0

\* ------------------------------------------------- claims on the endpoint surface
Prepared(t) == prepped[t] # NoPrepped
StartsWith(text, prefix) ==
    Len(text) >= Len(prefix) /\ SubSeq(text, 1, Len(prefix)) = prefix
\* part occurs in text, as consecutive tokens
Occurs(text, part) ==
    \E i \in 1..(Len(text) - Len(part) + 1) : SubSeq(text, i, i + Len(part) - 1) = part
\* the query string of a URL: what follows its "?"
QueryString(url) == SubSeq(url, IndexOf(url, "?") + 1, Len(url))
ApiHeaders == {"API-KEY", "API-TIMESTAMP", "API-SIGN"}

\* C3: whatever calls came before, a call with auth=False goes to the public base
\* URL with none of API-KEY, API-TIMESTAMP, API-SIGN, and a call with auth=True goes
\* to the private base URL with all three.
C3_AuthPerCall ==
    Prepared(1) =>
        IF call[1].auth
        THEN /\ StartsWith(prepped[1].url, endpoint.private)
             /\ \A h \in ApiHeaders : HasKey(prepped[1].headers, h)
        ELSE /\ StartsWith(prepped[1].url, endpoint.public)
             /\ \A h \in ApiHeaders : ~HasKey(prepped[1].headers, h)

\* a public call prepared right after a private one
C3_Witness ==
    /\ Prepared(1)
    /\ ~call[1].auth
    /\ last_dispatch.ended /\ last_dispatch.auth
    /\ ~HasKey(prepped[1].headers, "API-SIGN")

\* a null on the wire: a JSON member whose value is null
NullInJson(text) == \E i \in 1..(Len(text) - 1) : text[i] = ": " /\ text[i + 1] = "null"
\* a query parameter with nothing, or None, after its "="
NullInQuery(qs) ==
    \E i \in 1..Len(qs) :
        qs[i] = "=" /\ (i = Len(qs) \/ qs[i + 1] \in {"&", "None", "null"})

\* the payload on the wire holds item it with its value
OnWire(r, it) ==
    IF r.method = "GET"
    THEN Occurs(QueryString(r.url), <<it.k, "=", it.v.s>>)
    ELSE Occurs(r.body.text, <<"\"", it.k, "\"", ": ">> \o JsonValue(it.v))

\* C5: for every endpoint method and every combination of None and non-None
\* arguments, the payload on the wire has no key whose value is null, and every key
\* with a non-null value is there with its value.
C5_NoNullOnWire ==
    Prepared(1) =>
        /\ ~NullInJson(prepped[1].body.text)
        /\ ~NullInQuery(QueryString(prepped[1].url))
        /\ \A i \in 1..Len(call[1].payload) :
              ~IsNone(call[1].payload[i].v) => OnWire(prepped[1], call[1].payload[i])

\* C6: a GET carries the stripped payload as the query string and has no body; any
\* other method carries it as the JSON body and has no query string; of body and
\* query exactly one is set.
C6_ShapeByMethod ==
    Prepared(1) =>
        LET payload == StripNone(call[1].payload)
        IN  /\ local[1].body.present # local[1].query.present
            /\ IF call[1].method = "GET"
               THEN /\ local[1].query = Query(payload)
                    /\ ~prepped[1].body.present
                    /\ QueryString(prepped[1].url) = UrlEncode(payload)
                    /\ \A i \in 1..Len(payload) : OnWire(prepped[1], payload[i])
               ELSE /\ ~local[1].query.present
                    /\ ~Has(prepped[1].url, "?")
                    /\ prepped[1].body = Body(json_dumps(payload))
                    /\ \A i \in 1..Len(payload) : OnWire(prepped[1], payload[i])

\* a GET with a query string and no body has been prepared after a POST
C6_Witness ==
    /\ Prepared(1)
    /\ call[1].method = "GET"
    /\ Has(prepped[1].url, "?")
    /\ ~prepped[1].body.present
    /\ pc[1] = "returned"

\* ------------------------------------------------------- claims on the signer
\* the path with a leading /public or /private segment taken off, and any other
\* path as it is
CanonicalPath(path) ==
    IF /\ Len(path) >= 2
       /\ path[1] = "/"
       /\ path[2] \in {"public", "private"}
       /\ (Len(path) = 2 \/ path[3] = "/")
    THEN SubSeq(path, 3, Len(path))
    ELSE path

\* C7: the message under a signed request's HMAC-SHA256 is timestamp + method +
\* canonical path + body ('' without a body), the canonical path being the path
\* without its query string and without a leading /public or /private segment, any
\* other path unchanged; API-TIMESTAMP carries the timestamp that was signed.
C7_SignedMessage ==
    (Prepared(1) /\ HasKey(prepped[1].headers, "API-SIGN")) =>
        LET r == prepped[1]
            ts == Get(r.headers, "API-TIMESTAMP")
            path == UrlPath(Tail(r.url))
            body == IF r.body.present THEN r.body.text ELSE <<>>
        IN  /\ \E x \in 0..clock : ts = <<Timestamp(x)>>
            /\ ~Has(path, "?")
            /\ Get(r.headers, "API-SIGN")
                  = HmacSha256(secret, ts \o <<r.method>> \o CanonicalPath(path) \o body)

\* ---------------------------------------------------- claims on two callers
Sent(t) == Has(steps[t], "send")

\* C8: with two callers the throttle spaces a send only from the last_req_time its
\* own thread read; last_req_time is read and written with no lock, so both callers
\* can read the same value, both pass the check and both send within one second.
C8_OwnReadOnly ==
    late_limit =>
        \A t \in Threads :
            /\ Sent(t) => sendStart[t] >= seenLast[t] + Second
            /\ pc[t] = "sleep" => wake[t] >= seenLast[t] + Second

\* after an earlier dispatch set last_req_time, both callers read that same value,
\* neither waited as long as the other's send, and both sends came back within one
\* second of each other
C8_Race ==
    /\ late_limit
    /\ last_dispatch.completed
    /\ \A t \in Threads : pc[t] \in {"update", "store", "return"} /\ Sent(t)
    /\ seenLast[1] = seenLast[2]
    /\ seenLast[1] > 0
    /\ sendStart[1] - sendStart[2] < Second /\ sendStart[2] - sendStart[1] < Second
    /\ sendEnd[1] - sendEnd[2] < Second /\ sendEnd[2] - sendEnd[1] < Second

====
